---- MODULE Spec2Model ----
(***************************************************************************)
(* Model of src/obj_loader.rs: ObjLoader::from_file = obj_get_data (the    *)
(* line parser) followed by index_data (deduplication, fan triangulation,  *)
(* interleaved buffer emission).                                           *)
(*                                                                         *)
(* Text is modelled by its tokens.  A float token is a record              *)
(* [k |-> "num", n |-> value] or [k |-> "junk", n |-> 0]; a part of a face *)
(* token (the pieces between '/') is [k |-> "int", n |-> value],           *)
(* [k |-> "empty", n |-> 0] (the empty string) or [k |-> "junk", n |-> 0]. *)
(* Float values are integers, which f64 holds exactly below 2^53.          *)
(***************************************************************************)
EXTENDS Integers, Sequences, FiniteSets, TLC

VARIABLES
    pc,                  \* position in from_file
    panic,               \* "none", or the panic that unwound the call
    verts,               \* obj_get_data: verts
    tex_coords,          \* obj_get_data: tex_coords
    normals,             \* obj_get_data: normals
    faces,               \* obj_get_data: faces
    src_faces,           \* the face lines read so far, as written (tokens)
    contains_tex_coords, \* from_file
    contains_normals,    \* from_file
    indices,             \* index_data: indices
    obj_map,             \* index_data: obj_map
    data_vec,            \* index_data: data_vec
    fidx,                \* index_data: position of `for face in &obj_data.faces`
    face_c,              \* index_data: face_c
    first_ind,           \* index_data: first_ind
    raw_data,            \* index_data: raw_data
    loader               \* the ObjLoader returned by from_file, or NoLoader

vars == <<pc, panic, verts, tex_coords, normals, faces, src_faces,
          contains_tex_coords, contains_normals, indices, obj_map, data_vec,
          fidx, face_c, first_ind, raw_data, loader>>

parseVars == <<verts, tex_coords, normals, faces, src_faces>>
flagVars  == <<contains_tex_coords, contains_normals>>
indexVars == <<indices, obj_map, data_vec, fidx, face_c, first_ind>>

----------------------------------------------------------------------------
(* Bounds of the model *)

\* at most MaxAttr lines of each of v, vt, vn are read
MaxAttr == 2
\* at most MaxFaces f lines are read
MaxFaces == 2

----------------------------------------------------------------------------
(* Tokens *)

Num(n)   == [k |-> "num", n |-> n]
JunkTok  == [k |-> "junk", n |-> 0]
Int_(n)  == [k |-> "int", n |-> n]
EmptyStr == [k |-> "empty", n |-> 0]

I32Max == 2147483647
I32Min == -I32Max - 1

\* The model's integers stay below 2^31.  UsizeSpan stands for 2^64 in
\* `as usize`: the negative indices the model reads (-1) become values near
\* UsizeSpan which, as 2^64 - 1 does in the program, exceed the length of
\* every Vec.
UsizeSpan == 2^30

\* f64::from_str(num_str)
F64FromStr(tok) ==
    IF tok.k = "num" THEN [ok |-> TRUE, v |-> tok.n] ELSE [ok |-> FALSE, v |-> 0]

\* i32::from_str(part)
I32FromStr(part) ==
    IF part.k = "int" /\ part.n >= I32Min /\ part.n <= I32Max
    THEN [ok |-> TRUE, v |-> part.n]
    ELSE [ok |-> FALSE, v |-> 0]

\* `x as usize` of an i32 (sign extension to 64 bits)
AsUsize(i) == IF i < 0 THEN i + UsizeSpan ELSE i

\* `x as u32` of a usize: the low 32 bits, which are the value itself for
\* every length the model can hold (below 2^31)
AsU32(n) == n

\* `x as f32` of an f64 holding an integer of magnitude below 2^25: exact
\* up to 2^24, above that rounded to a multiple of 2, ties to the even
\* mantissa
AsF32(x) ==
    LET a == IF x < 0 THEN -x ELSE x
        r == IF a <= 2^24 \/ a % 2 = 0 THEN a
             ELSE IF ((a - 1) \div 2) % 2 = 0 THEN a - 1 ELSE a + 1
    IN IF x < 0 THEN -r ELSE r

----------------------------------------------------------------------------
(* obj_get_data: the parser *)

NoPanic == "none"

\* parse_floats: every token of the line is parsed before any is used, so
\* one bad token anywhere panics (unwrap of a ParseFloatError)
RECURSIVE parse_floats(_)
parse_floats(toks) ==
    IF toks = <<>> THEN [panic |-> NoPanic, nums |-> <<>>]
    ELSE LET f    == F64FromStr(Head(toks))
             rest == parse_floats(Tail(toks))
         IN IF ~f.ok THEN [panic |-> "ParseFloatError", nums |-> <<>>]
            ELSE IF rest.panic # NoPanic THEN rest
            ELSE [panic |-> NoPanic, nums |-> <<f.v>> \o rest.nums]

\* Vec3::new(floats[0], floats[1], floats[2]) resp. Vec2::new(floats[0],
\* floats[1]): indexing past the end of floats panics, extra floats are
\* ignored
VecOfFloats(toks, n) ==
    LET r == parse_floats(toks)
    IN IF r.panic # NoPanic THEN [panic |-> r.panic, vec |-> <<>>]
       ELSE IF Len(r.nums) < n THEN [panic |-> "index out of bounds", vec |-> <<>>]
       ELSE [panic |-> NoPanic, vec |-> SubSeq(r.nums, 1, n)]

FaceIndex(pos, tex, norm) == [pos |-> pos, tex |-> tex, norm |-> norm]

\* One face vertex token, already split on "/" into parts (split always
\* yields at least one part).  The triple starts as FaceIndex::new(0,0,0);
\* a part that is read is parsed and decremented by one.  The decrement
\* overflows only for a written i32::MIN, which no line of the model holds.
ParseFaceToken(parts) ==
    LET p0 == I32FromStr(parts[1])
        p1 == IF Len(parts) > 1 THEN I32FromStr(parts[2]) ELSE [ok |-> TRUE, v |-> 0]
        p2 == IF Len(parts) > 2 THEN I32FromStr(parts[3]) ELSE [ok |-> TRUE, v |-> 0]
        readTex  == Len(parts) > 1 /\ parts[2] # EmptyStr
        readNorm == Len(parts) > 2
    IN IF Len(parts) > 0 /\ ~p0.ok THEN [panic |-> "ParseIntError", fi |-> FaceIndex(0, 0, 0)]
       ELSE IF readTex /\ ~p1.ok THEN [panic |-> "ParseIntError", fi |-> FaceIndex(0, 0, 0)]
       ELSE IF readNorm /\ ~p2.ok THEN [panic |-> "ParseIntError", fi |-> FaceIndex(0, 0, 0)]
       ELSE [panic |-> NoPanic,
             fi |-> FaceIndex(IF Len(parts) > 0 THEN p0.v - 1 ELSE 0,
                              IF readTex THEN p1.v - 1 ELSE 0,
                              IF readNorm THEN p2.v - 1 ELSE 0)]

\* The tokens of one f line, in order; the first bad token panics
RECURSIVE ParseFaceLine(_)
ParseFaceLine(toks) ==
    IF toks = <<>> THEN [panic |-> NoPanic, face |-> <<>>]
    ELSE LET t    == ParseFaceToken(Head(toks))
             rest == ParseFaceLine(Tail(toks))
         IN IF t.panic # NoPanic THEN [panic |-> t.panic, face |-> <<>>]
            ELSE IF rest.panic # NoPanic THEN rest
            ELSE [panic |-> NoPanic, face |-> <<t.fi>> \o rest.face]

\* The loop body of obj_get_data on one line, whose prefix test
\* (line_str.find(p) == Some(0), that is, the line starts with p) has put it
\* in line.kind: "v", "vt", "vn", "f", or "other" for a line with none of
\* the four prefixes; "err" is a line the reader could not deliver
\* (line.unwrap()).  The result is the panic, if any, and the four
\* collections after the line.
ParseLineResult(line) ==
    LET same == [panic |-> NoPanic, verts |-> verts, tex_coords |-> tex_coords,
                 normals |-> normals, faces |-> faces]
        v3 == VecOfFloats(line.toks, 3)
        v2 == VecOfFloats(line.toks, 2)
        fl == ParseFaceLine(line.toks)
    IN CASE line.kind = "err" -> [same EXCEPT !.panic = "io::Error (line)"]
         [] line.kind = "v" ->
              IF v3.panic # NoPanic THEN [same EXCEPT !.panic = v3.panic]
              ELSE [same EXCEPT !.verts = Append(verts, v3.vec)]
         [] line.kind = "vt" ->
              IF v2.panic # NoPanic THEN [same EXCEPT !.panic = v2.panic]
              ELSE [same EXCEPT !.tex_coords = Append(tex_coords, v2.vec)]
         [] line.kind = "vn" ->
              IF v3.panic # NoPanic THEN [same EXCEPT !.panic = v3.panic]
              ELSE [same EXCEPT !.normals = Append(normals, v3.vec)]
         [] line.kind = "f" ->
              IF fl.panic # NoPanic THEN [same EXCEPT !.panic = fl.panic]
              ELSE [same EXCEPT !.faces = Append(faces, fl.face)]
         [] OTHER -> same

----------------------------------------------------------------------------
(* The lines the line source can deliver *)

Line(kind, toks) == [kind |-> kind, toks |-> toks]

\* The k-th v, vt and vn line of a file.  The loader never branches on a
\* float, so one line per position is offered, every number different from
\* every other; the first and last are beyond the integers f32 is exact on.
VToks(k)  == <<Num(2^24 + k), Num(10 * k + 1), Num(10 * k + 2)>>
VtToks(k) == <<Num(10 * k + 3), Num(10 * k + 4)>>
VnToks(k) == <<Num(10 * k + 5), Num(10 * k + 6), Num(-(2^24) - k)>>

AttrLines ==
    LET v == VToks(Len(verts) + 1)
        t == VtToks(Len(tex_coords) + 1)
        n == VnToks(Len(normals) + 1)
    IN { Line("v", v), Line("v", v \o <<Num(1)>>), Line("v", SubSeq(v, 1, 2)),
         Line("v", <<v[1], JunkTok, v[3]>>), Line("v", v \o <<JunkTok>>),
         Line("vt", t), Line("vt", t \o <<Num(0)>>), Line("vt", SubSeq(t, 1, 1)),
         Line("vt", <<JunkTok, t[2]>>),
         Line("vn", n), Line("vn", SubSeq(n, 1, 2)), Line("vn", <<n[1], n[2], JunkTok>>) }

\* face vertex tokens, named as they are written
T1    == <<Int_(1)>>
T2    == <<Int_(2)>>
T0    == <<Int_(0)>>
T1n1  == <<Int_(1), EmptyStr, Int_(1)>>
T1n2  == <<Int_(1), EmptyStr, Int_(2)>>
T2n2  == <<Int_(2), EmptyStr, Int_(2)>>
T111  == <<Int_(1), Int_(1), Int_(1)>>
T1t2  == <<Int_(1), Int_(2)>>
T1t0  == <<Int_(1), Int_(0)>>
T1s   == <<Int_(1), EmptyStr>>
Tx    == <<[k |-> "junk", n |-> 0]>>
Ts1   == <<EmptyStr, Int_(1)>>
T1x   == <<Int_(1), [k |-> "junk", n |-> 0]>>
T1ss  == <<Int_(1), EmptyStr, EmptyStr>>

FaceLines ==
    { Line("f", f) : f \in
        { <<T1, T2, T1n2>>,              \* f 1 2 1//2
          <<T1, T2, T2n2, T1n2>>,        \* f 1 2 2//2 1//2
          <<T2, T1, T1n2, T2n2, T1>>,    \* f 2 1 1//2 2//2 1
          <<T1, T1n1, T111>>,            \* f 1 1//1 1/1/1
          <<T1, T2>>,                    \* f 1 2
          <<T2n2>>,                      \* f 2//2
          <<>>,                          \* f
          <<T1t0, T2, T1s>>,             \* f 1/0 2 1/
          <<T1t2, T2, T1>>,              \* f 1/2 2 1
          <<T1, T2, T0>>,                \* f 1 2 0
          <<T1, Tx, T2>>,                \* f 1 x 2
          <<Ts1, T1, T2>>,               \* f /1 1 2
          <<T1, T2, T1x>>,               \* f 1 2 1/x
          <<T1ss, T1, T2>> } }           \* f 1// 1 2

OtherLines == { Line("other", <<>>), Line("err", <<>>) }

\* the model reads at most MaxAttr lines of each attribute and MaxFaces faces
WithinBounds(line) ==
    /\ line.kind = "v"  => Len(verts) < MaxAttr
    /\ line.kind = "vt" => Len(tex_coords) < MaxAttr
    /\ line.kind = "vn" => Len(normals) < MaxAttr
    /\ line.kind = "f"  => Len(faces) < MaxFaces

----------------------------------------------------------------------------
(* index_data *)

EmptyMap == [fi \in {} |-> fi]

ObjObject(index, pos) ==
    [index |-> index, pos |-> pos, tex_coord |-> <<0, 0>>, normal |-> <<0, 0, 0>>]

\* vec[i] of a Vec: a panic when i is not below the length
InBounds(vec, i) == i < Len(vec)

\* (mutant) equality that leaves the normal index out
FaceIndexEq_IgnoresNorm(a, b) == a.pos = b.pos /\ a.tex = b.tex

\* #[derive(Hash, Eq, PartialEq)] on FaceIndex: all three fields
FaceIndexEq(a, b) == a.pos = b.pos /\ a.tex = b.tex /\ a.norm = b.norm

\* (mutant) a lookup that never finds the key
MapGet_Miss(map, fi) == {}

\* obj_map.get(fi): the set of the stored object, empty for None
MapGet(map, fi) == { map[k] : k \in { k \in DOMAIN map : FaceIndexEq(k, fi) } }

\* (mutant) the index taken as if the object were already pushed
NewIndex_AfterPush(vec) == Len(vec) + 1

\* data_vec.len(), the index given to a new object
NewIndex(vec) == Len(vec)

\* obj_map.insert(fi.clone(), new_obj.clone())
MapInsert(map, fi, obj) == (fi :> obj) @@ map

\* (mutant) the new object put at the front of the list
Push_Front(vec, obj) == <<obj>> \o vec

\* data_vec.push(new_obj.clone())
Push(vec, obj) == Append(vec, obj)

\* The closure check_index on the map and list as they stand: the index of
\* the triple, with the map and list after the call, or the panic of an
\* out-of-bounds attribute index.
check_index(map, vec, fi) ==
    LET objobj == MapGet(map, fi)
    IN IF objobj # {}
       THEN [panic |-> NoPanic, index |-> AsU32((CHOOSE o \in objobj : TRUE).index),
             map |-> map, vec |-> vec]
       ELSE LET p == AsUsize(fi.pos)
                t == AsUsize(fi.tex)
                n == AsUsize(fi.norm)
                oob == [panic |-> "index out of bounds", index |-> 0,
                        map |-> map, vec |-> vec]
            IN IF ~InBounds(verts, p) THEN oob
               ELSE IF contains_tex_coords /\ ~InBounds(tex_coords, t) THEN oob
               ELSE IF contains_normals /\ ~InBounds(normals, n) THEN oob
               ELSE LET new_obj ==
                          [ObjObject(NewIndex(vec), verts[p + 1]) EXCEPT
                             !.tex_coord = IF contains_tex_coords
                                           THEN tex_coords[t + 1] ELSE @,
                             !.normal    = IF contains_normals
                                           THEN normals[n + 1] ELSE @]
                    IN [panic |-> NoPanic, index |-> AsU32(new_obj.index),
                        map |-> MapInsert(map, fi, new_obj), vec |-> Push(vec, new_obj)]

\* (mutant) the normal emitted before the texture coordinate
Chunk_NormalFirst(o) ==
    <<AsF32(o.pos[1]), AsF32(o.pos[2]), AsF32(o.pos[3])>>
    \o (IF contains_normals
        THEN <<AsF32(o.normal[1]), AsF32(o.normal[2]), AsF32(o.normal[3])>> ELSE <<>>)
    \o (IF contains_tex_coords THEN <<AsF32(o.tex_coord[1]), AsF32(o.tex_coord[2])>> ELSE <<>>)

\* the floats one ObjObject contributes to raw_data
Chunk(o) ==
    <<AsF32(o.pos[1]), AsF32(o.pos[2]), AsF32(o.pos[3])>>
    \o (IF contains_tex_coords THEN <<AsF32(o.tex_coord[1]), AsF32(o.tex_coord[2])>> ELSE <<>>)
    \o (IF contains_normals
        THEN <<AsF32(o.normal[1]), AsF32(o.normal[2]), AsF32(o.normal[3])>> ELSE <<>>)

\* raw_data after `for chunk in &data_vec`
RECURSIVE RawData(_)
RawData(vec) ==
    IF vec = <<>> THEN <<>> ELSE Chunk(Head(vec)) \o RawData(Tail(vec))

NoLoader == [returned |-> FALSE, indices |-> <<>>, vert_data |-> <<>>,
             contains_tex_coords |-> FALSE, contains_normals |-> FALSE]

----------------------------------------------------------------------------
(* from_file, step by step *)

Init ==
    /\ pc = "open"
    /\ panic = NoPanic
    /\ verts = <<>> /\ tex_coords = <<>> /\ normals = <<>> /\ faces = <<>>
    /\ src_faces = <<>>
    /\ contains_tex_coords = FALSE /\ contains_normals = FALSE
    /\ indices = <<>> /\ obj_map = EmptyMap /\ data_vec = <<>>
    /\ fidx = 1 /\ face_c = <<>> /\ first_ind = 0
    /\ raw_data = <<>>
    /\ loader = NoLoader

\* File::open(file_loc).unwrap()
Open ==
    /\ pc = "open"
    /\ \E opened \in BOOLEAN :
         /\ pc' = IF opened THEN "lines" ELSE "panic"
         /\ panic' = IF opened THEN NoPanic ELSE "io::Error (open)"
    /\ UNCHANGED <<parseVars, flagVars, indexVars, raw_data, loader>>

\* one iteration of `for line in lines` on the line delivered
ReadLine(line) ==
    /\ pc = "lines"
    /\ WithinBounds(line)
    /\ LET r == ParseLineResult(line)
       IN /\ pc' = IF r.panic = NoPanic THEN "lines" ELSE "panic"
          /\ panic' = r.panic
          /\ verts' = r.verts
          /\ tex_coords' = r.tex_coords
          /\ normals' = r.normals
          /\ faces' = r.faces
          /\ src_faces' = IF Len(r.faces) > Len(faces)
                           THEN Append(src_faces, line.toks) ELSE src_faces
    /\ UNCHANGED <<flagVars, indexVars, raw_data, loader>>

ParseLine ==
    \/ \E line \in AttrLines \cup OtherLines : ReadLine(line)
    \/ \E line \in FaceLines : ReadLine(line)

\* the lines are exhausted: obj_get_data returns Ok, from_file sets the two
\* flags and enters index_data
EndOfFile ==
    /\ pc = "lines"
    /\ pc' = "face"
    /\ contains_tex_coords' = (Len(tex_coords) > 0)
    /\ contains_normals' = (Len(normals) > 0)
    /\ indices' = <<>> /\ obj_map' = EmptyMap /\ data_vec' = <<>>
    /\ fidx' = 1
    /\ UNCHANGED <<panic, parseVars, face_c, first_ind, raw_data, loader>>

\* (mutant) the while loop asking for three remaining vertices
AfterRemove_StopsEarly(fc) == IF Len(fc) >= 3 THEN "tri" ELSE "face"

\* where the loop goes after face_c.remove(0): once more round the while
\* loop, or on to the next face
AfterRemove(fc) == IF Len(fc) >= 2 THEN "tri" ELSE "face"

\* `for face in &obj_data.faces`: clone the face, resolve its first vertex,
\* remove it
BeginFace ==
    /\ pc = "face"
    /\ fidx <= Len(faces)
    /\ LET face == faces[fidx]
           r    == check_index(obj_map, data_vec, face[1])
       IN IF Len(face) = 0
          THEN /\ pc' = "panic" /\ panic' = "index out of bounds"
               /\ face_c' = face
               /\ UNCHANGED <<obj_map, data_vec, first_ind, fidx>>
          ELSE IF r.panic # NoPanic
          THEN /\ pc' = "panic" /\ panic' = r.panic
               /\ face_c' = face
               /\ UNCHANGED <<obj_map, data_vec, first_ind, fidx>>
          ELSE /\ obj_map' = r.map /\ data_vec' = r.vec
               /\ first_ind' = r.index
               /\ face_c' = Tail(face)
               /\ pc' = AfterRemove(Tail(face))
               /\ fidx' = IF AfterRemove(Tail(face)) = "face" THEN fidx + 1 ELSE fidx
               /\ UNCHANGED panic
    /\ UNCHANGED <<parseVars, flagVars, indices, raw_data, loader>>

\* first half of the while body: push first_ind, push check_index(&face_c[0])
TriFirst ==
    /\ pc = "tri"
    /\ LET r == check_index(obj_map, data_vec, face_c[1])
       IN IF r.panic # NoPanic
          THEN /\ pc' = "panic" /\ panic' = r.panic
               /\ indices' = Append(indices, first_ind)
               /\ UNCHANGED <<obj_map, data_vec>>
          ELSE /\ pc' = "tri2"
               /\ indices' = indices \o <<first_ind, r.index>>
               /\ obj_map' = r.map /\ data_vec' = r.vec
               /\ UNCHANGED panic
    /\ UNCHANGED <<parseVars, flagVars, fidx, face_c, first_ind, raw_data, loader>>

\* second half: push check_index(&face_c[1]), face_c.remove(0)
TriSecond ==
    /\ pc = "tri2"
    /\ LET r == check_index(obj_map, data_vec, face_c[2])
       IN IF r.panic # NoPanic
          THEN /\ pc' = "panic" /\ panic' = r.panic
               /\ UNCHANGED <<indices, obj_map, data_vec, face_c, fidx>>
          ELSE /\ indices' = Append(indices, r.index)
               /\ obj_map' = r.map /\ data_vec' = r.vec
               /\ face_c' = Tail(face_c)
               /\ pc' = AfterRemove(Tail(face_c))
               /\ fidx' = IF AfterRemove(Tail(face_c)) = "face" THEN fidx + 1 ELSE fidx
               /\ UNCHANGED panic
    /\ UNCHANGED <<parseVars, flagVars, first_ind, raw_data, loader>>

\* all faces done: raw_data is filled from data_vec, index_data returns and
\* from_file builds the ObjLoader
Emit ==
    /\ pc = "face"
    /\ fidx > Len(faces)
    /\ raw_data' = RawData(data_vec)
    /\ loader' = [returned |-> TRUE, indices |-> indices, vert_data |-> RawData(data_vec),
                  contains_tex_coords |-> contains_tex_coords,
                  contains_normals |-> contains_normals]
    /\ pc' = "done"
    /\ UNCHANGED <<panic, parseVars, flagVars, indexVars>>

Next == Open \/ ParseLine \/ EndOfFile \/ BeginFace \/ TriFirst \/ TriSecond \/ Emit

Spec == Init /\ [][Next]_vars

----------------------------------------------------------------------------
(* What the properties below speak of *)

Done == pc = "done"

Range(seq) == { seq[i] : i \in 1..Len(seq) }

\* the stride the consumer derives from the two flags it is handed
Stride ==
    3 + (IF loader.contains_tex_coords THEN 2 ELSE 0)
      + (IF loader.contains_normals THEN 3 ELSE 0)

VertexCount == Len(loader.vert_data) \div Stride

\* every triple written in any face
AllTriples == UNION { Range(faces[f]) : f \in 1..Len(faces) }

\* the vertices of a face that fan triangulation looks at: all of them when
\* the face has a triangle, else only the first
Looked(face) == IF Len(face) >= 3 THEN face ELSE SubSeq(face, 1, 1)

ResolvedTriples == UNION { Range(Looked(faces[f])) : f \in 1..Len(faces) }

RECURSIVE LookedFrom(_)
LookedFrom(f) == IF f > Len(faces) THEN <<>> ELSE Looked(faces[f]) \o LookedFrom(f + 1)

RECURSIVE Dedup(_, _)
Dedup(seq, seen) ==
    IF seq = <<>> THEN <<>>
    ELSE IF Head(seq) \in seen THEN Dedup(Tail(seq), seen)
    ELSE <<Head(seq)>> \o Dedup(Tail(seq), seen \cup {Head(seq)})

\* the distinct triples in the order fan triangulation first meets them
FirstEncountered == Dedup(LookedFrom(1), {})

OrdinalOf(t) == (CHOOSE k \in 1..Len(FirstEncountered) : FirstEncountered[k] = t) - 1

RECURSIVE FanFrom(_, _)
FanFrom(face, i) ==
    IF i + 1 > Len(face) THEN <<>>
    ELSE <<OrdinalOf(face[1]), OrdinalOf(face[i]), OrdinalOf(face[i + 1])>>
         \o FanFrom(face, i + 1)

RECURSIVE FansFrom(_)
FansFrom(f) ==
    IF f > Len(faces) THEN <<>> ELSE FanFrom(faces[f], 2) \o FansFrom(f + 1)

----------------------------------------------------------------------------
(* Properties *)

\* C1: whenever the conversion returns, every entry of the index buffer is
\* below the vertex count, the vertex buffer's length divided by the stride
\* 3 + (2 if hasTexCoords) + (3 if hasNormals).
C1_IndicesBelowVertexCount ==
    Done => \A i \in 1..Len(loader.indices) :
                loader.indices[i] >= 0 /\ loader.indices[i] < VertexCount

\* a returned mesh with both flags set, two triangles and four vertices
C1_Witness ==
    /\ Done
    /\ loader.contains_tex_coords /\ loader.contains_normals
    /\ Len(loader.indices) >= 6
    /\ VertexCount = 4

\* C2 as claimed: the vertex count equals the number of distinct triples
\* written in any face, counting every vertex of every face, also of faces
\* that contribute no triangle.
C2_CountsEveryFaceVertex == Done => VertexCount = Cardinality(AllTriples)

\* C2 amended: the vertex count equals the number of distinct triples among
\* all vertices of the faces with three or more vertices and the first
\* vertex of each face with one or two.
C2_CountsResolvedVertices == Done => VertexCount = Cardinality(ResolvedTriples)

\* a returned mesh where a two-vertex face has a second vertex that no face
\* resolves, and where deduplication merged repeated triples
C2_Witness ==
    /\ Done
    /\ \E f \in 1..Len(faces) :
         Len(faces[f]) = 2 /\ faces[f][2] \notin ResolvedTriples
    /\ \E f \in 1..Len(faces) : Len(faces[f]) >= 3
    /\ VertexCount < Len(LookedFrom(1))

\* C3: the index buffer is, face after face in declaration order, the fan
\* (resolve(t0), resolve(ti), resolve(t(i+1))) for i = 1..N-2 of each face of
\* N >= 3 vertices, 3*(N-2) entries per face, resolve giving each triple its
\* first-encounter ordinal; a lone quad over four distinct triples gives
\* [0,1,2, 0,2,3].
C3_FanTriangulation ==
    Done => /\ loader.indices = FansFrom(1)
            /\ (Len(faces) = 1 /\ Len(faces[1]) = 4 /\ Cardinality(Range(faces[1])) = 4)
                 => loader.indices = <<0, 1, 2, 0, 2, 3>>

\* a lone quad over four distinct triples was triangulated
C3_Witness ==
    /\ Done
    /\ Len(faces) = 1 /\ Len(faces[1]) = 4 /\ Cardinality(Range(faces[1])) = 4
    /\ Len(loader.indices) = 6

\* the face vertex tokens read so far, as (face, position) pairs
TokenAt == UNION { { <<f, i>> : i \in 1..Len(src_faces[f]) } : f \in 1..Len(src_faces) }

\* the token wrote a texture-coordinate index / a normal index
TexWritten(parts)  == Len(parts) > 1 /\ parts[2] # EmptyStr
NormWritten(parts) == Len(parts) > 2

NegativeIndexRead ==
    \E f \in 1..Len(faces) : \E i \in 1..Len(faces[f]) :
        faces[f][i].pos < 0 \/ faces[f][i].tex < 0 \/ faces[f][i].norm < 0

\* C4 as claimed: once a face vertex token has given an index that is
\* negative after the decrement, the conversion never returns buffers.
C4_NegativeIndexNeverReturns == NegativeIndexRead => ~loader.returned

\* C5 as claimed: when a face vertex token wrote a texture-coordinate index
\* and the input has no vt line, the conversion never returns buffers.
C5_TexIndexWithoutVtNeverReturns ==
    (/\ Len(tex_coords) = 0
     /\ \E fi \in TokenAt : TexWritten(src_faces[fi[1]][fi[2]]))
    => ~loader.returned

\* C6 as claimed: a failing input (unopenable file, non-float token, too
\* few floats, bad face token) ends in an error value returned to the
\* caller and never in a panic.
C6_FailureIsNeverAPanic == pc # "panic" /\ panic = NoPanic

\* the record the consumer expects for a triple: position, then the texture
\* coordinate if hasTexCoords, then the normal if hasNormals, as f32
ExpectedRecord(t) ==
    LET pos == verts[t.pos + 1]
    IN <<AsF32(pos[1]), AsF32(pos[2]), AsF32(pos[3])>>
       \o (IF loader.contains_tex_coords
           THEN <<AsF32(tex_coords[t.tex + 1][1]), AsF32(tex_coords[t.tex + 1][2])>>
           ELSE <<>>)
       \o (IF loader.contains_normals
           THEN <<AsF32(normals[t.norm + 1][1]), AsF32(normals[t.norm + 1][2]),
                  AsF32(normals[t.norm + 1][3])>>
           ELSE <<>>)

\* C7: the returned vertex buffer has length (unique vertices) * stride, and
\* its k-th record holds the position of the k-th first-encountered triple,
\* then its texture coordinate only if hasTexCoords, then its normal only
\* if hasNormals.
C7_InterleavedLayout ==
    Done => /\ Len(loader.vert_data) = Len(data_vec) * Stride
            /\ Len(data_vec) = Len(FirstEncountered)
            /\ \A k \in 1..Len(FirstEncountered) :
                 SubSeq(loader.vert_data, (k - 1) * Stride + 1, k * Stride)
                   = ExpectedRecord(FirstEncountered[k])

\* a returned buffer of stride 8 with three or more records and two normals
C7_Witness ==
    /\ Done
    /\ Stride = 8
    /\ VertexCount >= 3
    /\ \E a, b \in Range(FirstEncountered) : a.norm # b.norm

\* the triple the next call of check_index is given
Resolving ==
    \/ pc = "face" /\ fidx <= Len(faces) /\ Len(faces[fidx]) > 0
    \/ pc \in {"tri", "tri2"}

NextKey ==
    IF pc = "face" THEN faces[fidx][1]
    ELSE IF pc = "tri" THEN face_c[1] ELSE face_c[2]

\* C8: check_index on a triple already in the map returns the index stored
\* for it and leaves the map and the unique-vertex list unchanged; inside a
\* triangle the call still adds to the index buffer.
C8_RepeatedTripleReusesIndex ==
    [][(Resolving /\ NextKey \in DOMAIN obj_map) =>
         /\ obj_map' = obj_map
         /\ data_vec' = data_vec
         /\ pc' # "panic"
         /\ IF pc = "face"
            THEN first_ind' = obj_map[NextKey].index
            ELSE /\ Len(indices') > Len(indices)
                 /\ indices'[Len(indices')] = obj_map[NextKey].index]_vars

\* a later face with a triangle repeated only triples of the first face, and
\* the conversion returned
C8_Witness ==
    /\ Done
    /\ Len(faces) = 2
    /\ Len(faces[1]) >= 3 /\ Len(faces[2]) >= 3
    /\ Range(faces[2]) \subseteq Range(faces[1])
    /\ Len(loader.indices) >= 6
    /\ VertexCount = Cardinality(Range(faces[1]))

\* the map and the list agree and the indices are dense
DenseIndices ==
    /\ Cardinality(DOMAIN obj_map) = Len(data_vec)
    /\ \A k \in 1..Len(data_vec) : data_vec[k].index = k - 1
    /\ \A fi \in DOMAIN obj_map :
         /\ obj_map[fi].index \in 0..Len(data_vec) - 1
         /\ data_vec[obj_map[fi].index + 1] = obj_map[fi]

\* a key keeps its index, and a key that enters the map gets an index above
\* every index given before
IndicesGrowInOrder ==
    (pc \in {"face", "tri", "tri2"}) =>
        \A fi \in DOMAIN obj_map :
            /\ fi \in DOMAIN obj_map'
            /\ obj_map'[fi].index = obj_map[fi].index
            /\ \A g \in DOMAIN obj_map' \ DOMAIN obj_map :
                 obj_map'[g].index > obj_map[fi].index

\* C9: at every point of an index_data run the dedup map and the
\* unique-vertex list have the same number of entries, the k-th element of
\* the list has index k (counting from 0), and every key keeps the index of
\* its first encounter, which is below that of every triple met later.
C9_DenseFirstEncounterIndices == []DenseIndices /\ [][IndicesGrowInOrder]_vars

\* in the middle of the second face, with three or more vertices resolved
C9_Witness ==
    /\ pc = "tri2"
    /\ fidx = 2
    /\ Len(data_vec) >= 3
    /\ Cardinality(DOMAIN obj_map) = Len(data_vec)

\* C10 as claimed: two face vertex tokens that differ in whether the texture
\* slot, or the normal slot, is written never yield equal triples.
C10_AbsentSlotIsDistinct ==
    \A a, b \in TokenAt :
        LET ta == src_faces[a[1]][a[2]]
            tb == src_faces[b[1]][b[2]]
        IN (TexWritten(ta) # TexWritten(tb) \/ NormWritten(ta) # NormWritten(tb))
           => faces[a[1]][a[2]] # faces[b[1]][b[2]]

====
